---- MODULE Spec2Model ----
(***************************************************************************)
(* mlog-pico: a logic VM on a microcontroller, bound to a USB serial       *)
(* bridge, a UART, a display renderer and a pin bank.                      *)
(*                                                                         *)
(* The executor is single-threaded and cooperative: the main task (VM tick *)
(* loop, src/main.rs), the receiver task (serial_data_task) and the USB    *)
(* stack only change place at an await.  Every action below is the code    *)
(* between two awaits of one task, or one step of the peer (host, wire).   *)
(***************************************************************************)
EXTENDS Integers, Sequences, FiniteSets, TLC

\* ------------------------------------------------------------ constants
MAX_USB_PACKET_SIZE == 64

\* ------------------------------------------------------------ bounds
\* message lengths go up to MAX_USB_PACKET_SIZE + MaxOver
MaxOver == 1
\* instructions the VM may execute in one tick
TickBudget == 2
\* draw commands the program queues in one run, and drawflush calls
MaxDraws == 2
MaxFlushes == 2
\* the longest pin list GpioData::new is given
MaxPinList == 2
\* packets the host sends in one run, and the longest of them
MaxPackets == 2
MaxPacketLen == 3

\* ------------------------------------------------------------ values
\* Option<T>: None is <<>>, Some(x) is <<x>>
None == <<>>
Some(x) == <<x>>

\* LValue results of read: NULL, or a number
LNull == <<>>
LNum(v) == <<v>>

Min(a, b) == IF a < b THEN a ELSE b

\* String::as_bytes of the print buffer text: the bytes of a text of length n
MessageOfLen(n) == [i \in 1..n |-> 32 + (i % 95)]

MsgLens ==
    {0, MAX_USB_PACKET_SIZE - 1, MAX_USB_PACKET_SIZE}
        \cup (MAX_USB_PACKET_SIZE + 1 .. MAX_USB_PACKET_SIZE + MaxOver)

Messages == {MessageOfLen(n) : n \in MsgLens}

\* the i-th byte the host ever sends (the stream is numbered so that order,
\* loss and duplication are all visible in the values)
StreamByte(i) == (10 * i) % 256

\* the packet of n bytes the host sends after having sent k bytes
HostPacket(k, n) == [i \in 1..n |-> StreamByte(k + i)]

\* address.num_usize(): Err (None) or Ok(i); the indices go past the longest
\* buffer (i = n and i > n)
Addresses == {None} \cup {Some(i) : i \in 0..MaxPacketLen + 1}

RECURSIVE Flatten(_)
Flatten(ss) == IF ss = <<>> THEN <<>> ELSE Head(ss) \o Flatten(Tail(ss))

IsPrefix(s, t) == Len(s) <= Len(t) /\ SubSeq(t, 1, Len(s)) = s

VARIABLES
    mainpc,        \* main task: where main() is
    budget,        \* instructions left in the running VM tick
    flushpc,       \* the USB flush closure (serial_tick): where it is
    uartpc,        \* the UART flush closure (uart0_tick): where it is
    rxpc,          \* serial_data_task: where it is
    halted,        \* a panic (unwrap on Err) has stopped this boot
    usb_enabled,   \* the host has configured the device (connection is up)
    is_connected,  \* SerialData::new's is_connected cell
    tx_buf,        \* SerialData.tx_buf: Option<String>
    uart_tx_buf,   \* UartData.tx_buf: Option<String>
    message,       \* the message the USB flush took (Option)
    uart_message,  \* the message the UART flush took (Option)
    sent,          \* packets written to the USB host for `message`
    rx_buf,        \* SerialData.rx_buf: Deque<u8, 64>
    rx_endpoint,   \* packet the host put into the armed OUT endpoint (Option)
    data,          \* serial_data_task's chunk (buf[..n])
    host_bytes,    \* bytes the host has sent so far
    host_packets,  \* packets the host has sent so far
    arrived,       \* concatenation of the payloads read_packet returned
    got,           \* non-null values the program obtained from read (kept
                   \* while every successful read was read(0))
    skipped,       \* some read with index > 0 dropped bytes
    last,          \* the last hook call: op, arg, before, after, result
    drawbuffer,    \* ProcessorState.drawbuffer, owned by the VM
    draws,         \* draw commands the program has queued so far
    display,       \* DisplayData.display: the pixel surface
    line_style,    \* DisplayData.line_style
    fill_style,    \* DisplayData.fill_style
    char_style,    \* DisplayData.char_style
    translation,   \* DisplayData.translation
    operations,    \* DisplayData.operations
    applied,       \* the commands the drawflush call just made applied, in
                   \* order, each with the renderer before and after it
    since_reset,   \* sum of the Translate commands applied since the last Reset
    flushes,       \* drawflush calls that have returned so far
    pins,          \* GpioData.pins: per slot, no pin or the pin and its setting
    gpio_built     \* GpioData::new has returned the bank

sched_vars == <<mainpc, budget>>
tx_vars == <<flushpc, is_connected, tx_buf, message, sent>>
uart_vars == <<uartpc, uart_tx_buf, uart_message>>
rx_vars == <<rxpc, rx_buf, data, arrived>>
host_vars == <<usb_enabled, rx_endpoint, host_bytes, host_packets>>
vm_vars == <<got, skipped, last>>

serial_vars == <<sched_vars, tx_vars, uart_vars, rx_vars, host_vars, vm_vars, halted>>

display_vars ==
    <<drawbuffer, draws, display, line_style, fill_style, char_style,
      translation, operations, applied, since_reset, flushes>>

gpio_vars == <<pins, gpio_built>>

vars == <<serial_vars, display_vars, gpio_vars>>

NoCall == [op |-> "none", arg |-> <<>>, before |-> <<>>, after |-> <<>>, result |-> <<>>]

\* ------------------------------------------------------------ Init
\* main() up to the first await that depends on the host (main.rs:143): the
\* USB stack is spawned, nothing else exists yet.  The cells are given the
\* values their constructors will give them (serial.rs:51-54, uart.rs:22).
SerialInit(pc) ==
    /\ mainpc = pc
    /\ budget = 0
    /\ flushpc = "idle"
    /\ uartpc = "idle"
    /\ rxpc = "unspawned"
    /\ halted = FALSE
    /\ usb_enabled = FALSE
    /\ is_connected = FALSE
    /\ tx_buf = None
    /\ uart_tx_buf = None
    /\ message = None
    /\ uart_message = None
    /\ sent = <<>>
    /\ rx_buf = <<>>
    /\ rx_endpoint = None
    /\ data = <<>>
    /\ host_bytes = 0
    /\ host_packets = 0
    /\ arrived = <<>>
    /\ got = <<>>
    /\ skipped = FALSE
    /\ last = NoCall

\* ------------------------------------------------------------ display renderer
\* the surface DisplayData reads its size from (display.rs:45): the ST7789VW
\* frame buffer (st7789vw.rs:21) turned by 270 degrees (main.rs:182)
DisplayWidth == 320
DisplayHeight == 240

Point(px, py) == [x |-> px, y |-> py]

\* Rgb888::new(r, g, b)
Rgb888(r, g, b) == <<r, g, b>>
WHITE == Rgb888(255, 255, 255)

\* display.rs:21
DISPLAY_RESET_COLOR == Rgb888(86, 86, 102)

\* T::Color::from(Rgb888) for the surface's Rgb666 (st7789vw.rs:20): each
\* channel is scaled from 8 to 6 bits
IntoColor(c) == [k \in 1..3 |-> (c[k] * 63 + 127) \div 255]

\* PrimitiveStyle { fill_color, stroke_color, stroke_width }
PrimitiveStyle(fill, stroke, width) ==
    [fill_color |-> fill, stroke_color |-> stroke, stroke_width |-> width]

\* the draw commands the program queues.  Lines are parallel to an axis and
\* strokes at most 1 wide, where the pixels drawn are the primitive's own
\* points; the triangle has two sides parallel to the axes and one at 45
\* degrees, where the pixels filled are the grid points of the closed triangle;
\* Print is left to the rasteriser and not queued here.
DrawCommands ==
    {[kind |-> "Clear", r |-> 0, g |-> 0, b |-> 0],
     [kind |-> "Color", r |-> 255, g |-> 0, b |-> 0, a |-> 255],
     [kind |-> "Color", r |-> 0, g |-> 255, b |-> 0, a |-> 0],
     [kind |-> "Stroke", width |-> 0],
     [kind |-> "Line", x1 |-> 0, y1 |-> 0, x2 |-> 10, y2 |-> 0],
     [kind |-> "Rect", x |-> 10, y |-> 10, width |-> 4, height |-> 6, fill |-> TRUE],
     [kind |-> "Rect", x |-> 10, y |-> 10, width |-> 4, height |-> 6, fill |-> FALSE],
     [kind |-> "Triangle", x1 |-> 20, y1 |-> 20, x2 |-> 23, y2 |-> 20,
      x3 |-> 20, y3 |-> 23],
     [kind |-> "Poly"],
     [kind |-> "Image"],
     [kind |-> "Translate", x |-> 5, y |-> 0],
     [kind |-> "Translate", x |-> -1, y |-> 1],
     [kind |-> "Scale"],
     [kind |-> "Rotate"],
     [kind |-> "Reset"]}

\* the renderer as one value: what draw_command reads and writes
Renderer ==
    [display |-> display, line_style |-> line_style, fill_style |-> fill_style,
     char_style |-> char_style, translation |-> translation,
     operations |-> operations]

\* the surface keeps a background and the pixels that differ from it
InSurface(p) == p.x \in 0..(DisplayWidth - 1) /\ p.y \in 0..(DisplayHeight - 1)

\* DrawTarget::clear
ClearSurface(d, c) == [bg |-> c, px |-> {}]

\* DrawTarget::draw_iter: the points inside the surface take colour c
Paint(d, pts, c) ==
    [bg |-> d.bg,
     px |-> {e \in d.px : e.p \notin pts}
              \cup (IF c = d.bg THEN {}
                    ELSE {[p |-> q, c |-> c] : q \in {r \in pts : InSurface(r)}})]

\* the points of a line parallel to an axis, both ends included
LinePoints(a, b) ==
    {Point(px, py) : px \in Min(a.x, b.x)..(a.x + b.x - Min(a.x, b.x)),
                     py \in Min(a.y, b.y)..(a.y + b.y - Min(a.y, b.y))}

\* the points of Rectangle::new(top_left, size)
RectPoints(tl, w, h) ==
    {Point(px, py) : px \in tl.x..(tl.x + w - 1), py \in tl.y..(tl.y + h - 1)}

\* the outline of the rectangle, one pixel wide, inside it
RectBorder(tl, w, h) ==
    {q \in RectPoints(tl, w, h) :
        q.x \in {tl.x, tl.x + w - 1} \/ q.y \in {tl.y, tl.y + h - 1}}

\* Line::into_styled(style).draw: nothing without a stroke colour or width
DrawLine(d, a, b, style) ==
    IF style.stroke_color = None \/ style.stroke_width = 0
    THEN d
    ELSE Paint(d, LinePoints(a, b), style.stroke_color[1])

\* Rectangle::into_styled(style).draw: the fill, then the stroke
DrawRect(d, tl, w, h, style) ==
    LET filled == IF style.fill_color = None THEN d
                  ELSE Paint(d, RectPoints(tl, w, h), style.fill_color[1])
    IN  IF style.stroke_color = None \/ style.stroke_width = 0
        THEN filled
        ELSE Paint(filled, RectBorder(tl, w, h), style.stroke_color[1])

\* which side of the line from a to b the point p lies on (0: on the line)
Side(a, b, p) == (b.x - a.x) * (p.y - a.y) - (b.y - a.y) * (p.x - a.x)

MaxOf3(i, j, k) == -Min(-i, Min(-j, -k))

\* the grid points of the closed triangle a b c
TrianglePoints(a, b, c) ==
    {q \in {Point(px, py) :
               px \in Min(a.x, Min(b.x, c.x))..MaxOf3(a.x, b.x, c.x),
               py \in Min(a.y, Min(b.y, c.y))..MaxOf3(a.y, b.y, c.y)} :
        \/ Side(a, b, q) >= 0 /\ Side(b, c, q) >= 0 /\ Side(c, a, q) >= 0
        \/ Side(a, b, q) <= 0 /\ Side(b, c, q) <= 0 /\ Side(c, a, q) <= 0}

\* the grid points on the sides of the triangle
TriangleBorder(a, b, c) ==
    {q \in TrianglePoints(a, b, c) :
        Side(a, b, q) = 0 \/ Side(b, c, q) = 0 \/ Side(c, a, q) = 0}

\* Triangle::into_styled(style).draw: the fill, then the stroke
DrawTriangle(d, a, b, c, style) ==
    LET filled == IF style.fill_color = None THEN d
                  ELSE Paint(d, TrianglePoints(a, b, c), style.fill_color[1])
    IN  IF style.stroke_color = None \/ style.stroke_width = 0
        THEN filled
        ELSE Paint(filled, TriangleBorder(a, b, c), style.stroke_color[1])

\* DisplayData::point (display.rs:58-71)
point(t, px, py) ==
    LET q == Point(px + t.x - 1, py + t.y - 1)
    IN  Point(q.x, DisplayHeight - q.y - 1)

ColorOf_IgnoreAlpha(cmd) == Some(IntoColor(Rgb888(cmd.r, cmd.g, cmd.b)))

\* display.rs:78-82
ColorOf(cmd) == IF cmd.a > 0 THEN Some(IntoColor(Rgb888(cmd.r, cmd.g, cmd.b))) ELSE None

TranslateBy_Absolute(t, cmd) == Point(cmd.x, cmd.y)

\* display.rs:181
TranslateBy(t, cmd) == Point(t.x + cmd.x, t.y + cmd.y)

ResetTranslation_Keep(t) == t

\* display.rs:189
ResetTranslation(t) == Point(0, 0)

RectTopLeft_BottomLeft(t, cmd) ==
    LET q == point(t, cmd.x, cmd.y)
    IN  Point(q.x + 1, q.y)

\* display.rs:106-111: the rectangle's top left corner on the surface
RectTopLeft(t, cmd) ==
    LET q == point(t, cmd.x, cmd.y + cmd.height)
    IN  Point(q.x + 1, q.y)

\* the commands that write to the surface (and so may return Err)
WritesSurface(cmd) == cmd.kind \in {"Clear", "Line", "Rect", "Triangle"}

\* DisplayData::draw_command (display.rs:73-193): the renderer after the command
draw_command(r, cmd) ==
    CASE cmd.kind = "Clear" ->
            [r EXCEPT !.display = ClearSurface(@, IntoColor(Rgb888(cmd.r, cmd.g, cmd.b)))]
      [] cmd.kind = "Color" ->
            [r EXCEPT !.line_style.stroke_color = ColorOf(cmd),
                      !.fill_style.fill_color = ColorOf(cmd),
                      !.char_style.text_color = ColorOf(cmd)]
      [] cmd.kind = "Stroke" ->
            [r EXCEPT !.line_style.stroke_width = cmd.width]
      [] cmd.kind = "Line" ->
            [r EXCEPT !.display =
                DrawLine(@, point(r.translation, cmd.x1, cmd.y1),
                         point(r.translation, cmd.x2, cmd.y2), r.line_style)]
      [] cmd.kind = "Rect" ->
            [r EXCEPT !.display =
                DrawRect(@, RectTopLeft(r.translation, cmd), cmd.width, cmd.height,
                         IF cmd.fill THEN r.fill_style ELSE r.line_style)]
      [] cmd.kind = "Triangle" ->
            [r EXCEPT !.display =
                DrawTriangle(@, point(r.translation, cmd.x1, cmd.y1),
                             point(r.translation, cmd.x2, cmd.y2),
                             point(r.translation, cmd.x3, cmd.y3), r.fill_style)]
      [] cmd.kind = "Translate" ->
            [r EXCEPT !.translation = TranslateBy(@, cmd)]
      [] cmd.kind = "Reset" ->
            [r EXCEPT !.translation = ResetTranslation(@)]
      [] OTHER -> r

\* the primitive the command hands to the surface, if any (display.rs:94-118)
Primitive(r, cmd) ==
    CASE cmd.kind = "Line" ->
            [shape |-> "Line", a |-> point(r.translation, cmd.x1, cmd.y1),
             b |-> point(r.translation, cmd.x2, cmd.y2)]
      [] cmd.kind = "Rect" ->
            [shape |-> "Rectangle", top_left |-> RectTopLeft(r.translation, cmd),
             width |-> cmd.width, height |-> cmd.height]
      [] cmd.kind = "Triangle" ->
            [shape |-> "Triangle", a |-> point(r.translation, cmd.x1, cmd.y1),
             b |-> point(r.translation, cmd.x2, cmd.y2),
             c |-> point(r.translation, cmd.x3, cmd.y3)]
      [] OTHER -> [shape |-> "none"]

\* what one draw_command call did: the renderer before and after it
LogEntry(r, cmd) ==
    [cmd |-> cmd, pre |-> r, prim |-> Primitive(r, cmd), post |-> draw_command(r, cmd)]

RECURSIVE DrawAll_NewestFirst(_, _, _)
DrawAll_NewestFirst(r, cmds, log) ==
    IF cmds = <<>>
    THEN [renderer |-> r, log |-> log]
    ELSE DrawAll_NewestFirst(draw_command(r, cmds[Len(cmds)]),
                             SubSeq(cmds, 1, Len(cmds) - 1),
                             Append(log, LogEntry(r, cmds[Len(cmds)])))

\* display.rs:203-205: for command in &state.drawbuffer { draw_command }:
\* the renderer after the commands, and the log of what was applied
RECURSIVE DrawAll(_, _, _)
DrawAll(r, cmds, log) ==
    IF cmds = <<>>
    THEN [renderer |-> r, log |-> log]
    ELSE DrawAll(draw_command(r, Head(cmds)), Tail(cmds),
                 Append(log, LogEntry(r, Head(cmds))))

\* (mutant) the Err of the k-th command is dropped and the loop goes on
AppliedBeforeFailure_Skip(buf, k) == SubSeq(buf, 1, k - 1) \o SubSeq(buf, k + 1, Len(buf))

\* display.rs:203-205: the loop is left by the panic of unwrap at the k-th
\* command: the commands before it have been applied, none after it
AppliedBeforeFailure(buf, k) == SubSeq(buf, 1, k - 1)

\* display.rs:203: the hook reads the buffer through a shared reference
DrawbufferAfterFlush(buf) == buf

OperationsAfterFlush_PerCommand(n) == n + Len(drawbuffer)

\* display.rs:207
OperationsAfterFlush(n) == n + 1

\* display.rs:211
DrawflushResult == "Yield"

\* the sum of the Translate commands since the last Reset, after cmds
RECURSIVE SumSinceReset(_, _)
SumSinceReset(t, cmds) ==
    IF cmds = <<>> THEN t
    ELSE LET c == Head(cmds) IN
         SumSinceReset(IF c.kind = "Reset" THEN Point(0, 0)
                       ELSE IF c.kind = "Translate" THEN Point(t.x + c.x, t.y + c.y)
                       ELSE t,
                       Tail(cmds))

\* DisplayData::new (display.rs:41-56) on the surface main.rs:188 cleared
DisplayInit ==
    /\ drawbuffer = <<>>
    /\ draws = 0
    /\ display = ClearSurface(<<>>, IntoColor(DISPLAY_RESET_COLOR))
    /\ line_style = PrimitiveStyle(None, Some(IntoColor(WHITE)), 1)
    /\ fill_style = PrimitiveStyle(Some(IntoColor(WHITE)), None, 0)
    /\ char_style = [text_color |-> Some(IntoColor(WHITE))]
    /\ translation = Point(0, 0)
    /\ operations = 0
    /\ applied = <<>>
    /\ since_reset = Point(0, 0)
    /\ flushes = 0

\* ------------------------------------------------------------ pin bank
\* pins: [Option<Flex>; 30] (gpio.rs:8)
NumPins == 30

Slots == 0..(NumPins - 1)

\* a pin as Flex::new leaves it: not driving, no pull
FreshPin(id) == [id |-> id, mode |-> "disconnected", level |-> FALSE, pull |-> "None"]

\* the backlight pin as main.rs:176-189 leaves it: output, driven high
BacklightPin(id) == [id |-> id, mode |-> "output", level |-> TRUE, pull |-> "None"]

\* [const { None }; 30] (gpio.rs:16)
NoPins == [i \in Slots |-> None]

RECURSIVE GpioNewLoop_Overwrite(_, _)
GpioNewLoop_Overwrite(bank, values) ==
    IF values = <<>>
    THEN [pins |-> bank, panicked |-> FALSE]
    ELSE LET i == Head(values)[1]
             pin == Head(values)[2]
         IN  IF i \notin Slots
             THEN [pins |-> bank, panicked |-> TRUE]
             ELSE GpioNewLoop_Overwrite([bank EXCEPT ![i] = Some(pin)], Tail(values))

\* GpioData::new (gpio.rs:16-25): the loop over the (index, pin) list.  It
\* panics on an index that is taken (gpio.rs:19-21) and on pins[i] with an
\* index outside the array (gpio.rs:19)
RECURSIVE GpioNewLoop(_, _)
GpioNewLoop(bank, values) ==
    IF values = <<>>
    THEN [pins |-> bank, panicked |-> FALSE]
    ELSE LET i == Head(values)[1]
             pin == Head(values)[2]
         IN  IF i \notin Slots \/ bank[i] # None
             THEN [pins |-> bank, panicked |-> TRUE]
             ELSE GpioNewLoop([bank EXCEPT ![i] = Some(pin)], Tail(values))

\* the list main.rs:252-273 passes: the pins numbered 2-7, 14-22, 25-28 fresh,
\* and the backlight pin 13
MainPinNumbers == <<2, 3, 4, 5, 6, 7, 13, 14, 15, 16, 17, 18, 19, 20, 21, 22, 25, 26, 27, 28>>

MainPinList ==
    [j \in 1..Len(MainPinNumbers) |->
        <<MainPinNumbers[j],
          IF MainPinNumbers[j] = 13 THEN BacklightPin(13) ELSE FreshPin(MainPinNumbers[j])>>]

\* the bank of the firmware, built before the loop starts (main.rs:252-273)
GpioMainInit ==
    /\ pins = GpioNewLoop(NoPins, MainPinList).pins
    /\ gpio_built = TRUE

\* before GpioData::new is called
GpioUnbuilt ==
    /\ pins = NoPins
    /\ gpio_built = FALSE

Init == SerialInit("boot") /\ DisplayInit /\ GpioMainInit

\* ------------------------------------------------------------ shared cells
\* The borrows of the RefCells (tx_buf of either transmitter, rx_buf) that a
\* party keeps alive while it is parked at an await: <<cell, party, kind>>.

\* (mutant) queue is bound before the loop and lives across every await
RxTaskBorrows_Hoisted(pc) ==
    IF pc \in {"read_packet", "yield"} THEN {<<"rx_buf", "receiver", "mut">>} ELSE {}

\* serial_data_task (serial.rs:24-37): nothing is borrowed before the loop
\* (l.24); the Ref of rx_buf.borrow() is a temporary of the loop condition,
\* dropped before yield_now().await (l.29-30); queue (l.33) is dropped at the
\* end of the loop body, before the next read_packet(..).await (l.26)
RxTaskBorrows(pc) == {}

\* the USB flush closure (serial.rs:63-73): tx_buf.replace(None) borrows for
\* the call and returns the message by value; wait_connection and write_packet
\* are awaited with no guard alive
SerialFlushBorrows(pc) == {}

\* the UART flush closure (uart.rs:29-30): the same
UartFlushBorrows(pc) == {}

\* the hooks are not async (serial.rs:81-110): buf (l.82) and the temporaries
\* (l.99-100, l.107) are dropped when the hook returns, inside the tick; main
\* owns no guard at its awaits (main.rs:311-315)
MainBorrows(pc) == {}

Borrowed ==
    RxTaskBorrows(rxpc) \cup SerialFlushBorrows(flushpc)
        \cup UartFlushBorrows(uartpc) \cup MainBorrows(mainpc)

\* RefCell::borrow, borrow_mut, replace: the call panics (already borrowed)
\* when a borrow of another party is alive and one of the two is exclusive
BorrowFails(party, cell, kind) ==
    \E b \in Borrowed :
        b[1] = cell /\ b[2] # party /\ (kind = "mut" \/ b[3] = "mut")

\* the main task is parked at an await, so another task may be polled; the
\* USB stack (usb_task, main.rs:79-82) is such a task
MainSuspended ==
    mainpc \in {"boot", "uart0_await", "serial_await", "yield", "harness", "ring"}

\* ------------------------------------------------------------ host / wire
\* the host configures the device: wait_connection() is satisfied from now on
HostConnect ==
    /\ ~halted /\ MainSuspended
    /\ ~usb_enabled
    /\ usb_enabled' = TRUE
    /\ UNCHANGED <<rx_endpoint, host_bytes, host_packets>>
    /\ UNCHANGED <<sched_vars, tx_vars, uart_vars, rx_vars, vm_vars, halted>>
    /\ UNCHANGED <<display_vars, gpio_vars>>

\* the host goes away (unplugged, port closed): the endpoints are disabled
HostDisconnect ==
    /\ ~halted /\ MainSuspended
    /\ usb_enabled
    /\ usb_enabled' = FALSE
    /\ rx_endpoint' = None
    /\ UNCHANGED <<host_bytes, host_packets>>
    /\ UNCHANGED <<sched_vars, tx_vars, uart_vars, rx_vars, vm_vars, halted>>
    /\ UNCHANGED <<display_vars, gpio_vars>>

\* serial.rs:26: the OUT endpoint takes a packet only while the task is
\* parked in read_packet
EndpointArmed(pc) == pc = "read_packet"

\* the host sends a packet of n bytes; the endpoint takes it only while a
\* read_packet is armed (serial.rs:26)
HostSend ==
    \E n \in 0..MaxPacketLen :
        /\ ~halted /\ MainSuspended
        /\ usb_enabled
        /\ EndpointArmed(rxpc)
        /\ rx_endpoint = None
        /\ host_packets < MaxPackets
        /\ rx_endpoint' = Some(HostPacket(host_bytes, n))
        /\ host_bytes' = host_bytes + n
        /\ host_packets' = host_packets + 1
        /\ UNCHANGED usb_enabled
        /\ UNCHANGED <<sched_vars, tx_vars, uart_vars, rx_vars, vm_vars, halted>>
        /\ UNCHANGED <<display_vars, gpio_vars>>

\* ------------------------------------------------------------ receiver task
\* (mutant) the receiver never finds the buffer drained
RxMayPush_Never(q) == FALSE

\* (mutant) the receiver does not wait for the drain
RxMayPush_NoWait(q) == TRUE

\* serial.rs:29: while !rx_buf.borrow().is_empty() { yield_now().await }
RxMayPush(q) == q = <<>>

\* (mutant) a ring buffer one byte smaller than a packet
RxPushOverflows_Small(q, d) == Len(q) + Len(d) > MAX_USB_PACKET_SIZE - 1

\* serial.rs:34-36: push_back every byte of the chunk; Err (full) panics
RxPushOverflows(q, d) == Len(q) + Len(d) > MAX_USB_PACKET_SIZE

RECURSIVE Reverse(_)
Reverse(d) == IF d = <<>> THEN <<>> ELSE Append(Reverse(Tail(d)), Head(d))

\* (mutant) push_front in place of push_back
RxPush_Front(q, d) == Reverse(d) \o q

RxPush(q, d) == q \o d

\* (mutant) after the push the task waits for the drain before it reads
RxAfterPush_WaitDrain == "yield"

\* serial.rs:37, 26: after the push the loop starts the next read_packet
RxAfterPush == "read_packet"

\* serial.rs:29-36 with the chunk d in hand: push it, or park in the loop
RxDrainOrPush(d) ==
    IF BorrowFails("receiver", "rx_buf", "shared")
    THEN halted' = TRUE /\ rxpc' = "already_borrowed" /\ UNCHANGED rx_buf
    ELSE IF RxMayPush(rx_buf)
    THEN IF BorrowFails("receiver", "rx_buf", "mut")
         THEN halted' = TRUE /\ rxpc' = "already_borrowed" /\ UNCHANGED rx_buf
         ELSE IF RxPushOverflows(rx_buf, d)
         THEN halted' = TRUE /\ UNCHANGED <<rxpc, rx_buf>>
         ELSE rx_buf' = RxPush(rx_buf, d) /\ rxpc' = RxAfterPush /\ UNCHANGED halted
    ELSE rxpc' = "yield" /\ UNCHANGED <<rx_buf, halted>>

\* serial.rs:24: rx.wait_connection().await returns
RxWaitConnection ==
    /\ ~halted /\ MainSuspended
    /\ rxpc = "wait_connection"
    /\ usb_enabled
    /\ rxpc' = "read_packet"
    /\ UNCHANGED <<rx_buf, data, arrived>>
    /\ UNCHANGED <<sched_vars, tx_vars, uart_vars, host_vars, vm_vars, halted>>
    /\ UNCHANGED <<display_vars, gpio_vars>>

\* serial.rs:26-36: read_packet returns Ok(n); the task runs on to its next await
RxReadPacket ==
    /\ ~halted /\ MainSuspended
    /\ rxpc = "read_packet"
    /\ rx_endpoint # None
    /\ data' = rx_endpoint[1]
    /\ arrived' = arrived \o rx_endpoint[1]
    /\ rx_endpoint' = None
    /\ RxDrainOrPush(rx_endpoint[1])
    /\ UNCHANGED <<usb_enabled, host_bytes, host_packets>>
    /\ UNCHANGED <<sched_vars, tx_vars, uart_vars, vm_vars>>
    /\ UNCHANGED <<display_vars, gpio_vars>>

\* serial.rs:26: read_packet returns Err (endpoint disabled); unwrap panics
RxReadError ==
    /\ ~halted /\ MainSuspended
    /\ rxpc = "read_packet"
    /\ ~usb_enabled
    /\ halted' = TRUE
    /\ rxpc' = "panicked"
    /\ UNCHANGED <<rx_buf, data, arrived>>
    /\ UNCHANGED <<sched_vars, tx_vars, uart_vars, host_vars, vm_vars>>
    /\ UNCHANGED <<display_vars, gpio_vars>>

\* serial.rs:29-36: the task is polled again after yield_now(); when the buffer
\* is still not empty it yields again (no change of state)
RxYield ==
    /\ ~halted /\ MainSuspended
    /\ rxpc = "yield"
    /\ RxMayPush(rx_buf) \/ BorrowFails("receiver", "rx_buf", "shared")
    /\ RxDrainOrPush(data)
    /\ UNCHANGED <<data, arrived>>
    /\ UNCHANGED <<sched_vars, tx_vars, uart_vars, host_vars, vm_vars>>
    /\ UNCHANGED <<display_vars, gpio_vars>>

\* ------------------------------------------------------------ USB flush closure
\* serial.rs:69
FirstPacketLen(m) == Min(Len(m), MAX_USB_PACKET_SIZE)

\* serial.rs:71
NeedsEmptyPacket(n) == n = MAX_USB_PACKET_SIZE

\* (mutant) the USB flush is not awaited: main goes on while it waits
AwaitSerialTick_Detached == "yield"

\* main.rs:311-312: the closures are awaited in place: main is parked in them
AwaitUartTick == "uart0_await"
AwaitSerialTick == "serial_await"

\* where main goes on when the awaited flush closure returns
AfterSerialTick(pc) == IF pc = "serial_await" THEN "yield" ELSE pc
AfterUartTick(pc) == IF pc = "uart0_await" THEN "serial_tick" ELSE pc

MailboxAfterTake_Keep(buf) == buf

\* serial.rs:63, uart.rs:29: tx_buf.replace(None) leaves None in the mailbox
MailboxAfterTake(buf) == None

\* serial.rs:63-67: the closure is called; tx_buf.replace(None)
SerialFlushCall(retpc, awaitpc) ==
    /\ flushpc = "idle"
    /\ IF BorrowFails("serial_tick", "tx_buf", "mut")
       THEN /\ halted' = TRUE
            /\ flushpc' = "already_borrowed"
            /\ UNCHANGED <<mainpc, is_connected, tx_buf, message, sent>>
       ELSE IF tx_buf = None
       THEN /\ mainpc' = retpc
            /\ UNCHANGED <<tx_vars, halted>>
       ELSE /\ message' = tx_buf
            /\ tx_buf' = MailboxAfterTake(tx_buf)
            /\ sent' = <<>>
            /\ flushpc' = IF is_connected THEN "write_packet" ELSE "wait_connection"
            /\ mainpc' = awaitpc
            /\ UNCHANGED <<is_connected, halted>>

\* serial.rs:65-66: wait_connection returns; the flag is set
SerialWaitConnection ==
    /\ ~halted /\ MainSuspended
    /\ flushpc = "wait_connection"
    /\ usb_enabled
    /\ is_connected' = TRUE
    /\ flushpc' = "write_packet"
    /\ UNCHANGED <<tx_buf, message, sent>>
    /\ UNCHANGED <<sched_vars, uart_vars, rx_vars, host_vars, vm_vars, halted>>
    /\ UNCHANGED <<display_vars, gpio_vars>>

\* serial.rs:69-71: the host takes the first packet; write_packet returns Ok
UsbWritePacket ==
    /\ ~halted /\ MainSuspended
    /\ flushpc = "write_packet"
    /\ usb_enabled
    /\ LET n == FirstPacketLen(message[1]) IN
        /\ sent' = Append(sent, SubSeq(message[1], 1, n))
        /\ IF NeedsEmptyPacket(n)
           THEN flushpc' = "write_zlp" /\ UNCHANGED mainpc
           ELSE flushpc' = "idle" /\ mainpc' = AfterSerialTick(mainpc)
    /\ UNCHANGED <<is_connected, tx_buf, message, budget>>
    /\ UNCHANGED <<uart_vars, rx_vars, host_vars, vm_vars, halted>>
    /\ UNCHANGED <<display_vars, gpio_vars>>

\* serial.rs:72: the host takes the empty packet; the closure returns
UsbWriteEmptyPacket ==
    /\ ~halted /\ MainSuspended
    /\ flushpc = "write_zlp"
    /\ usb_enabled
    /\ sent' = Append(sent, <<>>)
    /\ flushpc' = "idle"
    /\ mainpc' = AfterSerialTick(mainpc)
    /\ UNCHANGED <<is_connected, tx_buf, message, budget>>
    /\ UNCHANGED <<uart_vars, rx_vars, host_vars, vm_vars, halted>>
    /\ UNCHANGED <<display_vars, gpio_vars>>

\* serial.rs:70,72: write_packet returns Err (endpoint disabled); unwrap panics
UsbWriteError ==
    /\ ~halted /\ MainSuspended
    /\ flushpc \in {"write_packet", "write_zlp"}
    /\ ~usb_enabled
    /\ halted' = TRUE
    /\ flushpc' = "panicked"
    /\ UNCHANGED <<is_connected, tx_buf, message, sent>>
    /\ UNCHANGED <<sched_vars, uart_vars, rx_vars, host_vars, vm_vars>>
    /\ UNCHANGED <<display_vars, gpio_vars>>

\* ------------------------------------------------------------ UART flush closure
\* uart.rs:29-30: the closure is called; tx_buf.replace(None)
UartFlushCall(retpc, awaitpc) ==
    /\ uartpc = "idle"
    /\ IF BorrowFails("uart0_tick", "uart_tx_buf", "mut")
       THEN /\ halted' = TRUE
            /\ uartpc' = "already_borrowed"
            /\ UNCHANGED <<mainpc, uart_tx_buf, uart_message>>
       ELSE IF uart_tx_buf = None
       THEN /\ mainpc' = retpc
            /\ UNCHANGED <<uart_vars, halted>>
       ELSE /\ uart_message' = uart_tx_buf
            /\ uart_tx_buf' = MailboxAfterTake(uart_tx_buf)
            /\ uartpc' = "write_all"
            /\ mainpc' = awaitpc
            /\ UNCHANGED halted

\* uart.rs:30: write_all returns Ok: every byte is in the transmit buffer
UartWriteAll ==
    /\ ~halted /\ MainSuspended
    /\ uartpc = "write_all"
    /\ uart_message' = None
    /\ uartpc' = "idle"
    /\ mainpc' = AfterUartTick(mainpc)
    /\ UNCHANGED <<uart_tx_buf, budget>>
    /\ UNCHANGED <<tx_vars, rx_vars, host_vars, vm_vars, halted>>
    /\ UNCHANGED <<display_vars, gpio_vars>>

\* ------------------------------------------------------------ hooks
\* serial.rs:87-90: pop_front i times
RECURSIVE PopFronts(_, _)
PopFronts(buf, i) == IF i = 0 THEN buf ELSE PopFronts(Tail(buf), i - 1)

\* serial.rs:83-84: the address is an index inside the buffer
SerialReadHit(buf, addr) == addr # None /\ addr[1] < Len(buf)

\* serial.rs:92: Some(buf.pop_front().into())
SerialReadValue(buf, addr) ==
    IF SerialReadHit(buf, addr) THEN LNum(Head(PopFronts(buf, addr[1]))) ELSE LNull

\* (mutant) the bytes before the index are not discarded
SerialReadRest_NoDiscard(buf, addr) ==
    IF SerialReadHit(buf, addr) THEN Tail(buf) ELSE buf

\* serial.rs:82-95: the buffer after the call
SerialReadRest(buf, addr) ==
    IF SerialReadHit(buf, addr) THEN Tail(PopFronts(buf, addr[1])) ELSE buf

\* SerialData::read (serial.rs:81-96)
SerialRead(addr) ==
    /\ rx_buf' = SerialReadRest(rx_buf, addr)
    /\ skipped' = (skipped \/ (SerialReadHit(rx_buf, addr) /\ addr[1] > 0))
    /\ got' = IF skipped' THEN <<>>
              ELSE IF SerialReadHit(rx_buf, addr)
                   THEN got \o SerialReadValue(rx_buf, addr) ELSE got
    /\ last' = [op |-> "serial.read", arg |-> addr, before |-> rx_buf,
                after |-> SerialReadRest(rx_buf, addr),
                result |-> SerialReadValue(rx_buf, addr)]

\* (mutant) a message still in the mailbox is kept
PrintflushStore_KeepFirst(old, text) == IF old = None THEN Some(text) ELSE old

\* serial.rs:99-100, uart.rs:52-53: tx_buf.replace(Some(text))
PrintflushStore(old, text) == Some(text)

\* (mutant) printflush lets the processor go on
PrintflushResult_Ok == "Ok"

\* serial.rs:101, uart.rs:54
PrintflushResult == "Yield"

\* SerialData::printflush (serial.rs:98-102)
SerialPrintflush(text) ==
    /\ tx_buf' = PrintflushStore(tx_buf, text)
    /\ last' = [op |-> "serial.printflush", arg |-> text, before |-> tx_buf,
                after |-> PrintflushStore(tx_buf, text),
                result |-> <<PrintflushResult>>]

\* UartData::printflush (uart.rs:51-55)
UartPrintflush(text) ==
    /\ uart_tx_buf' = PrintflushStore(uart_tx_buf, text)
    /\ last' = [op |-> "uart.printflush", arg |-> text, before |-> uart_tx_buf,
                after |-> PrintflushStore(uart_tx_buf, text),
                result |-> <<PrintflushResult>>]

\* the properties a program asks the serial building for; it knows two
SerialSensorTags == {"MemoryCapacity", "BufferSize", "Operations"}

\* serial.rs:105-109
SerialSensorValue(buf, tag) ==
    IF tag = "MemoryCapacity" THEN Some(MAX_USB_PACKET_SIZE)
    ELSE IF tag = "BufferSize" THEN Some(Len(buf))
    ELSE None

\* serial.rs:107: only BufferSize looks into the ring buffer
SerialSensorBorrows(tag) == tag = "BufferSize"

\* SerialData::sensor (serial.rs:104-110)
SerialSensor(tag) ==
    last' = [op |-> "serial.sensor", arg |-> <<tag>>, before |-> rx_buf,
             after |-> rx_buf, result |-> SerialSensorValue(rx_buf, tag)]

\* a hook of the serial or UART building panics on its borrow (serial.rs:82,
\* 99, 107; uart.rs:52): the boot is over inside the tick
HookBorrowPanics ==
    /\ halted' = TRUE
    /\ mainpc' = "already_borrowed"
    /\ UNCHANGED <<budget, tx_vars, uart_vars, rx_vars, host_vars, vm_vars>>
    /\ UNCHANGED <<display_vars, gpio_vars>>

\* the VM stops the processor for this tick when a hook returns Yield
BudgetAfter(result, b) == IF result = "Yield" THEN 0 ELSE b - 1

\* ------------------------------------------------------------ main task
\* main.rs:143-307: the connection is up; the buildings are made, the receiver
\* is spawned (main.rs:196) and the loop is entered
MainBoot ==
    /\ ~halted
    /\ mainpc = "boot"
    /\ usb_enabled
    /\ mainpc' = "tick"
    /\ budget' = TickBudget
    /\ rxpc' = "wait_connection"
    /\ UNCHANGED <<rx_buf, data, arrived>>
    /\ UNCHANGED <<tx_vars, uart_vars, host_vars, vm_vars, halted>>
    /\ UNCHANGED <<display_vars, gpio_vars>>

\* the instructions of the program that the tick runs here
Instructions == {"Read", "PrintFlush", "Sensor", "Stop"}

instruction_hook_NoMatch(instruction) == None

\* main.rs:230-245, called with every instruction before it is executed: None
\* is no override; on Stop the hook reboots the chip (reset_to_usb_boot, or
\* reboot and a spin loop) and does not return
instruction_hook(instruction) ==
    IF instruction = "Stop" THEN Some("reboot") ELSE None

\* main.rs:309: an instruction of the tick reads the serial building
VmSerialRead ==
    \E addr \in Addresses :
        /\ ~halted
        /\ mainpc = "tick"
        /\ budget > 0
        /\ instruction_hook("Read") = None
        /\ IF BorrowFails("main", "rx_buf", "mut")
           THEN HookBorrowPanics
           ELSE /\ SerialRead(addr)
                /\ budget' = BudgetAfter("Ok", budget)
                /\ UNCHANGED <<mainpc, rxpc, data, arrived>>
                /\ UNCHANGED <<tx_vars, uart_vars, host_vars, halted>>
                /\ UNCHANGED <<display_vars, gpio_vars>>

\* main.rs:309: an instruction of the tick senses the serial building
VmSerialSensor ==
    \E tag \in SerialSensorTags :
        /\ ~halted
        /\ mainpc = "tick"
        /\ budget > 0
        /\ instruction_hook("Sensor") = None
        /\ IF SerialSensorBorrows(tag) /\ BorrowFails("main", "rx_buf", "shared")
           THEN HookBorrowPanics
           ELSE /\ SerialSensor(tag)
                /\ budget' = BudgetAfter("Ok", budget)
                /\ UNCHANGED <<mainpc, got, skipped>>
                /\ UNCHANGED <<tx_vars, uart_vars, rx_vars, host_vars, halted>>
                /\ UNCHANGED <<display_vars, gpio_vars>>

\* main.rs:309: an instruction of the tick is printflush to the serial building
VmSerialPrintflush ==
    \E text \in Messages :
        /\ ~halted
        /\ mainpc = "tick"
        /\ budget > 0
        /\ instruction_hook("PrintFlush") = None
        /\ IF BorrowFails("main", "tx_buf", "mut")
           THEN HookBorrowPanics
           ELSE /\ SerialPrintflush(text)
                /\ budget' = BudgetAfter(PrintflushResult, budget)
                /\ UNCHANGED <<mainpc, flushpc, is_connected, message, sent, got, skipped>>
                /\ UNCHANGED <<uart_vars, rx_vars, host_vars, halted>>
                /\ UNCHANGED <<display_vars, gpio_vars>>

\* main.rs:309: an instruction of the tick is printflush to the UART building
VmUartPrintflush ==
    \E text \in Messages :
        /\ ~halted
        /\ mainpc = "tick"
        /\ budget > 0
        /\ instruction_hook("PrintFlush") = None
        /\ IF BorrowFails("main", "uart_tx_buf", "mut")
           THEN HookBorrowPanics
           ELSE /\ UartPrintflush(text)
                /\ budget' = BudgetAfter(PrintflushResult, budget)
                /\ UNCHANGED <<mainpc, uartpc, uart_message, got, skipped>>
                /\ UNCHANGED <<tx_vars, rx_vars, host_vars, halted>>
                /\ UNCHANGED <<display_vars, gpio_vars>>

\* main.rs:309: an instruction of the tick is Stop.  The hook reboots into
\* the firmware-update mode and this boot is over; were the hook to return
\* None, the VM would execute Stop and halt the processor
VmStop ==
    /\ ~halted
    /\ mainpc = "tick"
    /\ budget > 0
    /\ IF instruction_hook("Stop") = None
       THEN /\ mainpc' = "uart0_tick"
            /\ budget' = 0
            /\ last' = [op |-> "vm.stop", arg |-> <<"Stop">>, before |-> <<>>,
                        after |-> <<>>, result |-> <<"Stopped">>]
            /\ UNCHANGED halted
       ELSE /\ mainpc' = "bootsel"
            /\ halted' = TRUE
            /\ last' = [op |-> "instruction_hook", arg |-> <<"Stop">>, before |-> <<>>,
                        after |-> <<>>, result |-> instruction_hook("Stop")]
            /\ UNCHANGED budget
    /\ UNCHANGED <<got, skipped>>
    /\ UNCHANGED <<tx_vars, uart_vars, rx_vars, host_vars>>
    /\ UNCHANGED <<display_vars, gpio_vars>>

\* main.rs:309: do_tick_with_delta returns (budget used up, or nothing to run)
VmTickEnd ==
    /\ ~halted
    /\ mainpc = "tick"
    /\ mainpc' = "uart0_tick"
    /\ budget' = 0
    /\ last' = NoCall
    /\ UNCHANGED <<got, skipped>>
    /\ UNCHANGED <<tx_vars, uart_vars, rx_vars, host_vars, halted>>
    /\ UNCHANGED <<display_vars, gpio_vars>>

\* main.rs:311: uart0_tick().await
MainUartTick ==
    /\ ~halted
    /\ mainpc = "uart0_tick"
    /\ UartFlushCall("serial_tick", AwaitUartTick)
    /\ UNCHANGED budget
    /\ UNCHANGED <<tx_vars, rx_vars, host_vars, vm_vars>>
    /\ UNCHANGED <<display_vars, gpio_vars>>

\* main.rs:312: serial_tick().await
MainSerialTick ==
    /\ ~halted
    /\ mainpc = "serial_tick"
    /\ SerialFlushCall("yield", AwaitSerialTick)
    /\ UNCHANGED budget
    /\ UNCHANGED <<uart_vars, rx_vars, host_vars, vm_vars>>
    /\ UNCHANGED <<display_vars, gpio_vars>>

\* main.rs:315: yield_now().await returns; the next iteration's tick starts
MainYield ==
    /\ ~halted
    /\ mainpc = "yield"
    /\ mainpc' = "tick"
    /\ budget' = TickBudget
    /\ UNCHANGED <<tx_vars, uart_vars, rx_vars, host_vars, vm_vars, halted>>
    /\ UNCHANGED <<display_vars, gpio_vars>>

\* ------------------------------------------------------------ the firmware
Next ==
    \/ HostConnect
    \/ HostDisconnect
    \/ HostSend
    \/ RxWaitConnection
    \/ RxReadPacket
    \/ RxReadError
    \/ RxYield
    \/ SerialWaitConnection
    \/ UsbWritePacket
    \/ UsbWriteEmptyPacket
    \/ UsbWriteError
    \/ UartWriteAll
    \/ MainBoot
    \/ VmSerialRead
    \/ VmSerialSensor
    \/ VmSerialPrintflush
    \/ VmUartPrintflush
    \/ VmStop
    \/ VmTickEnd
    \/ MainUartTick
    \/ MainSerialTick
    \/ MainYield

Spec == Init /\ [][Next]_vars

\* the scheduling the executor guarantees: a task that can run is polled.
\* Nothing is promised of the peer: whether the host connects, sends, or takes
\* a written packet (UsbWritePacket, UsbWriteEmptyPacket) is up to the host.
FairSpec ==
    /\ Spec
    /\ WF_vars(MainBoot)
    /\ WF_vars(VmTickEnd)
    /\ WF_vars(MainUartTick)
    /\ WF_vars(MainSerialTick)
    /\ WF_vars(MainYield)
    /\ WF_vars(SerialWaitConnection)
    /\ WF_vars(UartWriteAll)
    /\ WF_vars(RxWaitConnection)
    /\ WF_vars(RxReadPacket)
    /\ WF_vars(RxYield)

\* the executor's run queue: a task that has woken itself (yield_now,
\* serial.rs:30) is polled each time the main task parks at an await
\* (main.rs:311-315), however briefly main stays parked
ExecutorSpec ==
    /\ FairSpec
    /\ SF_vars(RxYield)

\* ------------------------------------------------------------ the hooks alone
\* SerialData, UartData and their flush closures driven by any caller: hooks
\* and closures are called in any order, as their signatures allow.
HarnessSerialPrintflush ==
    \E text \in Messages :
        /\ ~halted
        /\ mainpc = "harness"
        /\ IF BorrowFails("main", "tx_buf", "mut")
           THEN HookBorrowPanics
           ELSE /\ SerialPrintflush(text)
                /\ UNCHANGED <<flushpc, is_connected, message, sent, got, skipped>>
                /\ UNCHANGED <<sched_vars, uart_vars, rx_vars, host_vars, halted>>
                /\ UNCHANGED <<display_vars, gpio_vars>>

HarnessUartPrintflush ==
    \E text \in Messages :
        /\ ~halted
        /\ mainpc = "harness"
        /\ IF BorrowFails("main", "uart_tx_buf", "mut")
           THEN HookBorrowPanics
           ELSE /\ UartPrintflush(text)
                /\ UNCHANGED <<uartpc, uart_message, got, skipped>>
                /\ UNCHANGED <<sched_vars, tx_vars, rx_vars, host_vars, halted>>
                /\ UNCHANGED <<display_vars, gpio_vars>>

HarnessSerialTick ==
    /\ ~halted
    /\ mainpc = "harness"
    /\ SerialFlushCall("harness", "harness")
    /\ last' = NoCall
    /\ UNCHANGED <<budget, got, skipped>>
    /\ UNCHANGED <<uart_vars, rx_vars, host_vars>>
    /\ UNCHANGED <<display_vars, gpio_vars>>

HarnessUartTick ==
    /\ ~halted
    /\ mainpc = "harness"
    /\ UartFlushCall("harness", "harness")
    /\ last' = NoCall
    /\ UNCHANGED <<budget, got, skipped>>
    /\ UNCHANGED <<tx_vars, rx_vars, host_vars>>
    /\ UNCHANGED <<display_vars, gpio_vars>>

HookInit == SerialInit("harness") /\ DisplayInit /\ GpioMainInit

HookNext ==
    \/ HostConnect
    \/ HostDisconnect
    \/ SerialWaitConnection
    \/ UsbWritePacket
    \/ UsbWriteEmptyPacket
    \/ UsbWriteError
    \/ UartWriteAll
    \/ HarnessSerialPrintflush
    \/ HarnessUartPrintflush
    \/ HarnessSerialTick
    \/ HarnessUartTick

HookSpec == HookInit /\ [][HookNext]_vars

\* ------------------------------------------------------------ the ring buffer alone
\* The receiver task, the host and the hooks that look into the ring buffer,
\* with packets up to the full packet size; the hooks are called in any order
\* between the polls of the task.

\* packet lengths: none, one byte, a full packet (main.rs:137: the endpoint's
\* packet size is MAX_USB_PACKET_SIZE, the size of the task's buf, serial.rs:23)
RingPacketLens == {0, 1, MAX_USB_PACKET_SIZE}

\* no index, the front, the last byte of a full buffer, one past it
RingAddresses ==
    {None, Some(0), Some(MAX_USB_PACKET_SIZE - 1), Some(MAX_USB_PACKET_SIZE)}

\* main.rs:196: spawner.must_spawn(serial_task)
RingSpawn ==
    /\ ~halted
    /\ mainpc = "ring"
    /\ rxpc = "unspawned"
    /\ rxpc' = "wait_connection"
    /\ UNCHANGED <<rx_buf, data, arrived>>
    /\ UNCHANGED <<sched_vars, tx_vars, uart_vars, host_vars, vm_vars, halted>>
    /\ UNCHANGED <<display_vars, gpio_vars>>

RingHostSend ==
    \E n \in RingPacketLens :
        /\ ~halted /\ MainSuspended
        /\ mainpc = "ring"
        /\ usb_enabled
        /\ EndpointArmed(rxpc)
        /\ rx_endpoint = None
        /\ host_packets < MaxPackets
        /\ rx_endpoint' = Some(HostPacket(host_bytes, n))
        /\ host_bytes' = host_bytes + n
        /\ host_packets' = host_packets + 1
        /\ UNCHANGED usb_enabled
        /\ UNCHANGED <<sched_vars, tx_vars, uart_vars, rx_vars, vm_vars, halted>>
        /\ UNCHANGED <<display_vars, gpio_vars>>

RingSerialRead ==
    \E addr \in RingAddresses :
        /\ ~halted
        /\ mainpc = "ring"
        /\ IF BorrowFails("main", "rx_buf", "mut")
           THEN HookBorrowPanics
           ELSE /\ SerialRead(addr)
                /\ UNCHANGED <<sched_vars, rxpc, data, arrived>>
                /\ UNCHANGED <<tx_vars, uart_vars, host_vars, halted>>
                /\ UNCHANGED <<display_vars, gpio_vars>>

RingSerialSensor ==
    \E tag \in SerialSensorTags :
        /\ ~halted
        /\ mainpc = "ring"
        /\ IF SerialSensorBorrows(tag) /\ BorrowFails("main", "rx_buf", "shared")
           THEN HookBorrowPanics
           ELSE /\ SerialSensor(tag)
                /\ UNCHANGED <<sched_vars, got, skipped>>
                /\ UNCHANGED <<tx_vars, uart_vars, rx_vars, host_vars, halted>>
                /\ UNCHANGED <<display_vars, gpio_vars>>

RingInit == SerialInit("ring") /\ DisplayInit /\ GpioMainInit

RingNext ==
    \/ HostConnect
    \/ HostDisconnect
    \/ RingHostSend
    \/ RingSpawn
    \/ RxWaitConnection
    \/ RxReadPacket
    \/ RxReadError
    \/ RxYield
    \/ RingSerialRead
    \/ RingSerialSensor

RingSpec == RingInit /\ [][RingNext]_vars

\* ------------------------------------------------------------ display hooks
SetRenderer(r) ==
    /\ display' = r.display
    /\ line_style' = r.line_style
    /\ fill_style' = r.fill_style
    /\ char_style' = r.char_style
    /\ translation' = r.translation

\* a draw instruction of the program queues a command (the VM's side of
\* state.drawbuffer)
VmDraw ==
    \E cmd \in DrawCommands :
        /\ ~halted
        /\ mainpc = "display"
        /\ draws < MaxDraws
        /\ drawbuffer' = Append(drawbuffer, cmd)
        /\ draws' = draws + 1
        /\ applied' = <<>>
        /\ last' = NoCall
        /\ UNCHANGED <<display, line_style, fill_style, char_style, translation,
                       operations, since_reset, flushes>>
        /\ UNCHANGED <<sched_vars, tx_vars, uart_vars, rx_vars, host_vars,
                       got, skipped, halted>>
        /\ UNCHANGED gpio_vars

\* the VM empties state.drawbuffer
VmDiscard ==
    /\ ~halted
    /\ mainpc = "display"
    /\ drawbuffer # <<>>
    /\ drawbuffer' = <<>>
    /\ applied' = <<>>
    /\ last' = NoCall
    /\ UNCHANGED <<draws, display, line_style, fill_style, char_style, translation,
                   operations, since_reset, flushes>>
    /\ UNCHANGED <<sched_vars, tx_vars, uart_vars, rx_vars, host_vars,
                   got, skipped, halted>>
    /\ UNCHANGED gpio_vars

\* DisplayData::drawflush (display.rs:202-212), every surface write Ok
DrawFlush ==
    /\ ~halted
    /\ mainpc = "display"
    /\ operations < MaxFlushes
    /\ LET done == DrawAll(Renderer, drawbuffer, <<>>) IN
        /\ SetRenderer(done.renderer)
        /\ applied' = done.log
        /\ operations' = OperationsAfterFlush(done.renderer.operations)
        /\ since_reset' = SumSinceReset(since_reset, drawbuffer)
    /\ drawbuffer' = DrawbufferAfterFlush(drawbuffer)
    /\ last' = [op |-> "display.drawflush", arg |-> <<>>, before |-> drawbuffer,
                after |-> DrawbufferAfterFlush(drawbuffer),
                result |-> <<DrawflushResult>>]
    /\ flushes' = flushes + 1
    /\ UNCHANGED draws
    /\ UNCHANGED <<sched_vars, tx_vars, uart_vars, rx_vars, host_vars,
                   got, skipped, halted>>
    /\ UNCHANGED gpio_vars

\* DisplayData::drawflush where the k-th command's surface write returns Err:
\* unwrap panics (display.rs:204) with the commands before it applied
DrawFlushError ==
    \E k \in 1..Len(drawbuffer) :
        /\ ~halted
        /\ mainpc = "display"
        /\ operations < MaxFlushes
        /\ WritesSurface(drawbuffer[k])
        /\ LET done == DrawAll(Renderer, AppliedBeforeFailure(drawbuffer, k), <<>>) IN
            /\ SetRenderer(done.renderer)
            /\ applied' = done.log
            /\ since_reset' = SumSinceReset(since_reset, AppliedBeforeFailure(drawbuffer, k))
        /\ halted' = TRUE
        /\ last' = NoCall
        /\ UNCHANGED <<drawbuffer, draws, operations, flushes>>
        /\ UNCHANGED <<sched_vars, tx_vars, uart_vars, rx_vars, host_vars,
                       got, skipped>>
        /\ UNCHANGED gpio_vars

\* the tags a program asks a building for: the three the display answers, one
\* it does not
SensorTags == {"DisplayWidth", "DisplayHeight", "Operations", "MemoryCapacity"}

\* DisplayData::sensor (display.rs:214-221)
DisplaySensorValue(tag) ==
    CASE tag = "DisplayWidth" -> Some(DisplayWidth)
      [] tag = "DisplayHeight" -> Some(DisplayHeight)
      [] tag = "Operations" -> Some(operations)
      [] OTHER -> None

\* a sensor instruction of the program on the display
DisplaySensor ==
    \E tag \in SensorTags :
        /\ ~halted
        /\ mainpc = "display"
        /\ last' = [op |-> "display.sensor", arg |-> tag, before |-> drawbuffer,
                    after |-> drawbuffer, result |-> DisplaySensorValue(tag)]
        /\ applied' = <<>>
        /\ UNCHANGED <<drawbuffer, draws, display, line_style, fill_style, char_style,
                       translation, operations, since_reset, flushes>>
        /\ UNCHANGED <<sched_vars, tx_vars, uart_vars, rx_vars, host_vars,
                       got, skipped, halted>>
        /\ UNCHANGED gpio_vars

DisplaySpecInit == SerialInit("display") /\ DisplayInit /\ GpioMainInit

DisplayNext ==
    \/ VmDraw
    \/ VmDiscard
    \/ DrawFlush
    \/ DrawFlushError
    \/ DisplaySensor

DisplaySpec == DisplaySpecInit /\ [][DisplayNext]_vars

\* ------------------------------------------------------------ pin bank hooks
\* the slots a pin list names: the first, the last, and one past the array
PinIndices == {0, NumPins - 1, NumPins}

\* the (index, pin) lists GpioData::new is given; the pin at position j is
\* the fresh pin j
PinLists ==
    UNION {{[j \in 1..n |-> <<f[j], FreshPin(j)>>] : f \in [1..n -> PinIndices]}
              : n \in 0..MaxPinList}

\* the addresses the program uses: one that is no index (num_usize is Err),
\* slots 0, 1 and the last, and one past the array
GpioAddresses == {None} \cup {Some(i) : i \in {0, 1, NumPins - 1, NumPins}}

\* the values the program writes
GpioValues == {LNull, LNum(0), LNum(1), LNum(2)}

\* what is wired to a pin from outside: nothing, or something driving it
Drives == {"none", "low", "high"}

\* LValue::bool: null and 0 are false
LBool(v) == v # LNull /\ v[1] # 0

\* gpio.rs:31-32, 48-49: address.num_usize() is Ok(i) and pins.get_mut(i) is
\* Some(Some(pin))
PinAt(bank, addr) == addr # None /\ addr[1] \in Slots /\ bank[addr[1]] # None

\* Flex::get_level on an input pin: the level outside drives, else the level
\* the pull gives, else either
PadLevels(pin, drive) ==
    CASE drive = "high" -> {TRUE}
      [] drive = "low" -> {FALSE}
      [] pin.pull = "Up" -> {TRUE}
      [] pin.pull = "Down" -> {FALSE}
      [] OTHER -> {TRUE, FALSE}

\* gpio.rs:34: pin.set_as_input()
GpioReadPins(bank, addr) ==
    IF PinAt(bank, addr)
    THEN [bank EXCEPT ![addr[1]] = Some([@[1] EXCEPT !.mode = "input"])]
    ELSE bank

GpioReadResult_Low(bank, addr, level) ==
    IF PinAt(bank, addr) /\ level THEN LNum(1) ELSE LNum(0)

\* gpio.rs:35-37: the level as a value, or null
GpioReadResult(bank, addr, level) ==
    IF PinAt(bank, addr)
    THEN LNum(IF level THEN 1 ELSE 0)
    ELSE LNull

PullOf_Swapped(value) ==
    IF value = LNull THEN "None" ELSE IF LBool(value) THEN "Down" ELSE "Up"

\* gpio.rs:51-57
PullOf(value) ==
    IF value = LNull THEN "None" ELSE IF LBool(value) THEN "Up" ELSE "Down"

\* gpio.rs:48-60: set_pull, set_level, set_as_output on a populated slot
GpioWritePins(bank, addr, value) ==
    IF PinAt(bank, addr)
    THEN [bank EXCEPT ![addr[1]] =
            Some([@[1] EXCEPT !.pull = PullOf(value),
                              !.level = LBool(value),
                              !.mode = "output"])]
    ELSE bank

\* gpio.rs:61
GpioWriteResult == "Ok"

\* GpioData::sensor (gpio.rs:64-69)
GpioSensorValue(tag) == IF tag = "MemoryCapacity" THEN Some(NumPins) ELSE None

gpio_frame ==
    /\ UNCHANGED <<sched_vars, tx_vars, uart_vars, rx_vars, host_vars, got, skipped>>
    /\ UNCHANGED display_vars

\* GpioData::new (gpio.rs:12-26): the bank, or a panic and no bank
GpioNew ==
    \E values \in PinLists :
        LET built == GpioNewLoop(NoPins, values) IN
        /\ ~halted
        /\ mainpc = "gpio"
        /\ ~gpio_built
        /\ IF built.panicked
           THEN /\ halted' = TRUE
                /\ UNCHANGED <<pins, gpio_built>>
           ELSE /\ pins' = built.pins
                /\ gpio_built' = TRUE
                /\ UNCHANGED halted
        /\ last' = [op |-> "gpio.new", arg |-> values, before |-> pins,
                    after |-> pins', result |-> <<>>]
        /\ gpio_frame

\* GpioData::read (gpio.rs:30-39)
GpioRead ==
    \E addr \in GpioAddresses, drive \in Drives :
        \E level \in (IF PinAt(pins, addr) THEN PadLevels(pins[addr[1]][1], drive)
                      ELSE {FALSE}) :
            /\ ~halted
            /\ mainpc = "gpio"
            /\ gpio_built
            /\ pins' = GpioReadPins(pins, addr)
            /\ last' = [op |-> "gpio.read", arg |-> <<addr, drive>>, before |-> pins,
                        after |-> pins', result |-> GpioReadResult(pins, addr, level)]
            /\ UNCHANGED <<gpio_built, halted>>
            /\ gpio_frame

\* GpioData::write (gpio.rs:41-62)
GpioWrite ==
    \E addr \in GpioAddresses, value \in GpioValues :
        /\ ~halted
        /\ mainpc = "gpio"
        /\ gpio_built
        /\ pins' = GpioWritePins(pins, addr, value)
        /\ last' = [op |-> "gpio.write", arg |-> <<addr, value>>, before |-> pins,
                    after |-> pins', result |-> <<GpioWriteResult>>]
        /\ UNCHANGED <<gpio_built, halted>>
        /\ gpio_frame

\* GpioData::sensor (gpio.rs:64-69)
GpioSensor ==
    \E tag \in SensorTags :
        /\ ~halted
        /\ mainpc = "gpio"
        /\ gpio_built
        /\ last' = [op |-> "gpio.sensor", arg |-> tag, before |-> pins,
                    after |-> pins, result |-> GpioSensorValue(tag)]
        /\ UNCHANGED <<pins, gpio_built, halted>>
        /\ gpio_frame

GpioSpecInit == SerialInit("gpio") /\ DisplayInit /\ GpioUnbuilt

GpioNext ==
    \/ GpioNew
    \/ GpioRead
    \/ GpioWrite
    \/ GpioSensor

GpioSpec == GpioSpecInit /\ [][GpioNext]_vars

\* ============================================================ claims

\* a USB flush has run to its end for the message it took
SerialFlushDone == flushpc = "idle" /\ message # None

\* C1: when the USB flush has returned, the packets written are each at most
\* MAX_USB_PACKET_SIZE long and their payloads, concatenated, are the whole
\* message taken, byte for byte.
C1_WholeMessageWritten ==
    SerialFlushDone =>
        /\ \A k \in 1..Len(sent) : Len(sent[k]) <= MAX_USB_PACKET_SIZE
        /\ Flatten(sent) = message[1]

\* C2: when the USB flush has returned, the last packet written is an empty
\* one exactly when the message length is a multiple of the packet size; a
\* message of 64 bytes gives two packets, the second empty; a message of 63
\* bytes gives one packet.
C2_EmptyPacketIffMultiple ==
    SerialFlushDone =>
        LET L == Len(message[1]) IN
        /\ (sent[Len(sent)] = <<>>) <=> (L % MAX_USB_PACKET_SIZE = 0)
        /\ L = MAX_USB_PACKET_SIZE => (Len(sent) = 2 /\ sent[2] = <<>>)
        /\ L = MAX_USB_PACKET_SIZE - 1 => Len(sent) = 1

\* a flush closure is parked in one of its awaits
FlushWaiting == flushpc # "idle" \/ uartpc # "idle"

\* C3 (as claimed): whenever a flush closure is waiting, the main loop goes on
\* to a further VM tick, whatever the peer does (so that the VM tick occurs
\* infinitely often under fair scheduling of the tasks alone).
C3_TickWhateverThePeer == FlushWaiting ~> (mainpc = "tick")

\* C3 (amended): while a flush closure is waiting, main is parked in that very
\* closure's await: no VM tick runs before the wait ends.
C3_MainParkedWhileFlushWaits ==
    /\ flushpc # "idle" => mainpc = "serial_await"
    /\ uartpc # "idle" => mainpc = "uart0_await"

C3_Witness ==
    /\ flushpc = "write_packet"
    /\ mainpc = "serial_await"
    /\ rxpc = "read_packet"
    /\ rx_buf # <<>>

\* C4: read(addr) on buffer b of length n: if addr is an index i < n, the result
\* is b[i] (0-based) and the buffer is b without its first i+1 bytes; otherwise
\* the result is null and the buffer is b.
C4_SerialRead ==
    last.op = "serial.read" =>
        LET b == last.before
            n == Len(last.before)
        IN  /\ rx_buf = last.after
            /\ IF last.arg # None /\ last.arg[1] < n
               THEN /\ last.result = LNum(b[last.arg[1] + 1])
                    /\ rx_buf = SubSeq(b, last.arg[1] + 2, n)
               ELSE /\ last.result = LNull
                    /\ rx_buf = b

C4_Witness ==
    /\ last.op = "serial.read"
    /\ last.before = <<10, 20, 30>>
    /\ last.arg = Some(1)
    /\ last.result = LNum(20)
    /\ rx_buf = <<30>>

\* C5: every step that makes the ring buffer longer starts with the ring
\* buffer empty.
C5_AppendOnlyWhenEmpty ==
    [][Len(rx_buf') > Len(rx_buf) => rx_buf = <<>>]_vars

\* a second chunk has been appended, after the first one was drained
C5_Witness ==
    /\ host_packets = 2
    /\ data # <<>>
    /\ rx_buf = data
    /\ Len(arrived) > Len(data)

\* C6: as long as every successful read was read(0), the values obtained are a
\* prefix of the concatenation of the payloads the receiver read.
C6_OrderPreserved == ~skipped => IsPrefix(got, arrived)

C6_Witness ==
    /\ ~skipped
    /\ Len(got) > MaxPacketLen
    /\ got = arrived

\* C7: right after printflush(text) the mailbox holds exactly text, whatever it
\* held before, and the hook's result is Yield.
C7_PrintflushLastWriteWins ==
    /\ last.op = "serial.printflush" =>
            (tx_buf = Some(last.arg) /\ last.result = <<"Yield">>)
    /\ last.op = "uart.printflush" =>
            (uart_tx_buf = Some(last.arg) /\ last.result = <<"Yield">>)

\* a second printflush with no flush in between replaced a different message
C7_Witness ==
    /\ last.op = "serial.printflush"
    /\ last.before # None
    /\ last.before # Some(last.arg)
    /\ tx_buf = Some(last.arg)

\* ------------------------------------------------------------ display claims
FlushReturned == last.op = "display.drawflush"

\* the commands of the log, in the order they were applied
AppliedCommands == [i \in 1..Len(applied) |-> applied[i].cmd]

\* each logged call started from the renderer the one before it left, the first
\* from r0, and the renderer now is the one the last call left
AppliedInSequence ==
    /\ \A i \in 1..Len(applied) :
          /\ applied[i].post = draw_command(applied[i].pre, applied[i].cmd)
          /\ i > 1 => applied[i].pre = applied[i - 1].post
    /\ applied # <<>> =>
          applied[Len(applied)].post = [Renderer EXCEPT !.operations = @ - 1]

TranslationAt(i) ==
    SumSinceReset(applied[1].pre.translation,
                  [k \in 1..(i - 1) |-> applied[k].cmd])

\* C9: the translation is always the component-wise sum of the Translate
\* commands applied since the last Reset (or construction), over any number
\* of flushes, and a flush alone never resets it; so a Line is handed to the
\* surface shifted by exactly that sum (x by +T.x, and y, which the device
\* inverts, by -T.y), and without offset right after a Reset.
C9_TranslateAdditivePersistent ==
    /\ translation = since_reset
    /\ \A i \in 1..Len(applied) :
          applied[i].cmd.kind = "Line" =>
              LET c == applied[i].cmd
                  t == TranslationAt(i)
              IN  /\ applied[i].prim.a = Point(c.x1 - 1 + t.x, DisplayHeight - c.y1 - t.y)
                  /\ applied[i].prim.b = Point(c.x2 - 1 + t.x, DisplayHeight - c.y2 - t.y)

\* the second flush draws Line{0,0,10,0} 5 to the right of where it would be
\* untranslated, under a Translate{5,0} that an earlier flush applied
C9_Witness ==
    /\ FlushReturned
    /\ operations = 2
    /\ Len(applied) = 1
    /\ applied[1].cmd.kind = "Line"
    /\ applied[1].pre.translation = Point(5, 0)
    /\ applied[1].prim.a.x = applied[1].cmd.x1 - 1 + 5

\* C10: Reset sets the translation to (0,0) and leaves the stroke colour, fill
\* colour, text colour, stroke width, operations counter and pixel surface as
\* they were.
C10_ResetOnlyTranslation ==
    \A i \in 1..Len(applied) :
        applied[i].cmd.kind = "Reset" =>
            /\ applied[i].post.translation = Point(0, 0)
            /\ applied[i].post.line_style = applied[i].pre.line_style
            /\ applied[i].post.fill_style = applied[i].pre.fill_style
            /\ applied[i].post.char_style = applied[i].pre.char_style
            /\ applied[i].post.operations = applied[i].pre.operations
            /\ applied[i].post.display = applied[i].pre.display

\* a Reset was applied with a translation in force
C10_Witness ==
    \E i \in 1..Len(applied) :
        /\ applied[i].cmd.kind = "Reset"
        /\ applied[i].pre.translation # Point(0, 0)
        /\ applied[i].post.translation = Point(0, 0)
        /\ applied[i].pre.fill_style = applied[i].post.fill_style

\* the commands that draw a shape with the styles Color sets
DrawsShape(cmd) == cmd.kind \in {"Line", "Rect", "Triangle"}

\* the renderer holds no colour: stroke, fill and text colour are all absent
NoColour(r) ==
    /\ r.line_style.stroke_color = None
    /\ r.fill_style.fill_color = None
    /\ r.char_style.text_color = None

\* C11: Color{r,g,b,a} with a > 0 makes the stroke, fill and text colour all
\* (r,g,b), with a = 0 it makes all three absent; and with no colour a Line, an
\* outlined or filled Rect and a Triangle change no pixel, in this flush or a
\* later one, until a Color with a > 0.
C11_ColorAndNoColour ==
    \A i \in 1..Len(applied) :
        LET e == applied[i] IN
        /\ e.cmd.kind = "Color" /\ e.cmd.a > 0 =>
              /\ e.post.line_style.stroke_color = <<IntoColor(<<e.cmd.r, e.cmd.g, e.cmd.b>>)>>
              /\ e.post.fill_style.fill_color = e.post.line_style.stroke_color
              /\ e.post.char_style.text_color = e.post.line_style.stroke_color
        /\ e.cmd.kind = "Color" /\ e.cmd.a = 0 => NoColour(e.post)
        /\ e.cmd.kind # "Color" =>
              /\ e.post.line_style.stroke_color = e.pre.line_style.stroke_color
              /\ e.post.fill_style.fill_color = e.pre.fill_style.fill_color
              /\ e.post.char_style.text_color = e.pre.char_style.text_color
        /\ DrawsShape(e.cmd) /\ NoColour(e.pre) => e.post.display = e.pre.display

\* a flush applied a shape with no colour, set by Color{a: 0} just before it
C11_Witness ==
    /\ FlushReturned
    /\ \E i \in 1..Len(applied) :
          /\ DrawsShape(applied[i].cmd)
          /\ NoColour(applied[i].pre)
          /\ i > 1 /\ applied[i - 1].cmd.kind = "Color" /\ applied[i - 1].cmd.a = 0

\* the colour the surface shows at q
PixelAt(d, q) ==
    IF \E e \in d.px : e.p = q THEN (CHOOSE e \in d.px : e.p = q).c ELSE d.bg

\* the device region with top left corner tl, w wide and h high, on the surface
Region(tl, w, h) ==
    {q \in {Point(px, py) : px \in tl.x..(tl.x + w - 1), py \in tl.y..(tl.y + h - 1)} :
        /\ 0 <= q.x /\ q.x < DisplayWidth
        /\ 0 <= q.y /\ q.y < DisplayHeight}

\* C12: under translation (tx,ty), Rect{x,y,width,height,fill} is the device
\* rectangle of width x height with top left corner (x + tx, H - (y + height) - ty),
\* the transform of (x, y + height) moved 1 to the right, where the transform of
\* (px,py) is (px + tx - 1, H - (py + ty - 1) - 1); a filled one in a colour
\* paints exactly that region, so Rect{10,10,4,6,fill} untranslated fills device
\* x in [10,13] and y in [H-16,H-11] and nothing else.
C12_RectAnchoring ==
    \A i \in 1..Len(applied) :
        LET e == applied[i]
            c == e.cmd
            t == e.pre.translation
        IN
        /\ c.kind = "Rect" =>
              /\ e.prim.top_left = Point(c.x + t.x, DisplayHeight - (c.y + c.height) - t.y)
              /\ e.prim.width = c.width /\ e.prim.height = c.height
              /\ c.fill /\ e.pre.fill_style.fill_color # None =>
                    LET reg == Region(Point(c.x + t.x, DisplayHeight - (c.y + c.height) - t.y),
                                      c.width, c.height)
                    IN  /\ \A q \in reg : PixelAt(e.post.display, q) = e.pre.fill_style.fill_color[1]
                        /\ e.post.display.bg = e.pre.display.bg
                        /\ {x \in e.post.display.px : x.p \notin reg}
                              = {x \in e.pre.display.px : x.p \notin reg}
              /\ c.fill /\ e.pre.fill_style.fill_color # None /\ t = Point(0, 0)
                    /\ c.x = 10 /\ c.y = 10 /\ c.width = 4 /\ c.height = 6 =>
                    {x.p : x \in {y \in e.post.display.px : y \notin e.pre.display.px}}
                        \subseteq {Point(px, py) : px \in 10..13,
                                     py \in (DisplayHeight - 16)..(DisplayHeight - 11)}
        /\ c.kind = "Triangle" =>
              /\ e.prim.a = Point(c.x1 + t.x - 1, DisplayHeight - (c.y1 + t.y - 1) - 1)
              /\ e.prim.b = Point(c.x2 + t.x - 1, DisplayHeight - (c.y2 + t.y - 1) - 1)
              /\ e.prim.c = Point(c.x3 + t.x - 1, DisplayHeight - (c.y3 + t.y - 1) - 1)

\* the untranslated Rect{10,10,4,6,fill} was filled in a colour: its corners
\* (10,H-16) and (13,H-11) changed
C12_Witness ==
    /\ \E i \in 1..Len(applied) :
          /\ applied[i].cmd.kind = "Rect" /\ applied[i].cmd.fill
          /\ applied[i].pre.translation = Point(0, 0)
          /\ PixelAt(applied[i].pre.display, Point(10, DisplayHeight - 16))
                # PixelAt(applied[i].post.display, Point(10, DisplayHeight - 16))
          /\ PixelAt(applied[i].pre.display, Point(13, DisplayHeight - 11))
                # PixelAt(applied[i].post.display, Point(13, DisplayHeight - 11))

\* C13: every drawflush invocation that completes returns Yield and adds
\* exactly 1 to the operations counter, whatever the number of queued commands
\* (zero included); the counter never decreases, and sensor(Operations) is
\* always the number of drawflush invocations completed.
C13_OperationsCountsFlushes ==
    /\ [](/\ operations = flushes
          /\ DisplaySensorValue("Operations") = <<flushes>>
          /\ FlushReturned => last.result = <<"Yield">>
          /\ last.op = "display.sensor" /\ last.arg = "Operations" =>
                last.result = <<flushes>>)
    /\ [][/\ operations' >= operations
          /\ flushes' # flushes =>
                /\ operations' = operations + 1
                /\ last'.op = "display.drawflush"
                /\ last'.result = <<"Yield">>]_vars

\* after two flushes have returned the program reads sensor(Operations) as 2,
\* with two commands in the buffer
C13_Witness ==
    /\ last.op = "display.sensor"
    /\ last.arg = "Operations"
    /\ last.result = <<2>>
    /\ Len(drawbuffer) = 2
    /\ draws = 2

\* ------------------------------------------------------------ pin bank claims
GpioCall == last.op \in {"gpio.read", "gpio.write"}

\* the address names no pin of the bank: it is no index, or 30 or more, or the
\* slot holds no pin
Inert(bank, addr) ==
    \/ addr = <<>>
    \/ addr[1] >= 30
    \/ bank[addr[1]] = <<>>

\* C14: a read or write whose address is not a valid index, is 30 or more, or
\* names a slot without a pin never aborts; the read returns null, the write
\* returns Ok, and no pin's mode, level or pull changes.
C14_InertAddresses ==
    GpioCall /\ Inert(last.before, last.arg[1]) =>
        /\ ~halted
        /\ last.after = last.before
        /\ pins = last.before
        /\ last.op = "gpio.read" => last.result = LNull
        /\ last.op = "gpio.write" => last.result = <<"Ok">>

\* a read of the empty slot 1 and of slot 30 came back with pin 0 set as an
\* output by an earlier write
C14_Witness ==
    /\ last.op = "gpio.read"
    /\ last.arg[1] \in {<<1>>, <<30>>}
    /\ last.result = LNull
    /\ pins[0] # <<>>
    /\ pins[0][1].mode = "output"

\* the call was on slot k, which holds a pin
OnPin(k) == GpioCall /\ last.arg[1] = <<k>> /\ last.before[k] # <<>>

\* the pin is as write(k, 0) leaves it: output, driving low, pull-down
AsWrittenZero(pin) == pin.mode = "output" /\ ~pin.level /\ pin.pull = "Down"

\* the parts of C15 that do not depend on what the read returns
C15_WriteAndFrame ==
    /\ last.op = "gpio.write" => last.result = <<"Ok">>
    /\ \A k \in 0..29 :
          OnPin(k) =>
              /\ last.after[k] # <<>>
              /\ last.after[k][1].id = last.before[k][1].id
              /\ \A j \in (0..29) \ {k} : last.after[j] = last.before[j]
              /\ last.op = "gpio.write" /\ last.arg[2] \in {<<1>>, <<2>>} =>
                    /\ last.after[k][1].mode = "output"
                    /\ last.after[k][1].level
                    /\ last.after[k][1].pull = "Up"
              /\ last.op = "gpio.read" => last.after[k][1].mode = "input"

\* C15 as stated: write(k, v) with v nonzero leaves pin k an output driving
\* true with the pull-up selected, write returns Ok, no call on slot k changes
\* another slot, and write(k, 0) followed by read(k) leaves pin k an input and
\* the read returns false.
C15_ReadAfterWriteZeroIsFalse ==
    /\ C15_WriteAndFrame
    /\ \A k \in 0..29 :
          OnPin(k) /\ last.op = "gpio.read" /\ AsWrittenZero(last.before[k][1]) =>
              last.result = <<0>>

\* C15 amended: as stated, except that the read after write(k, 0) returns the
\* level on the pin: false when nothing outside drives the pin high (the
\* pull-down the write selected holds it low), true when something does.
C15_ReadAfterWriteZeroIsPinLevel ==
    /\ C15_WriteAndFrame
    /\ \A k \in 0..29 :
          OnPin(k) /\ last.op = "gpio.read" /\ AsWrittenZero(last.before[k][1]) =>
              last.result = (IF last.arg[2] = "high" THEN <<1>> ELSE <<0>>)

\* read(k) right after write(k, 0), nothing wired to the pin, returned false
\* and left the pin an input, with another pin in the bank
C15_Witness ==
    /\ last.op = "gpio.read"
    /\ last.arg = <<<<0>>, "none">>
    /\ last.before[0] # <<>>
    /\ AsWrittenZero(last.before[0][1])
    /\ last.result = <<0>>
    /\ pins[0][1].mode = "input"
    /\ pins[29] # <<>>
    /\ pins[29][1].mode = "output"

\* GpioData::new has just been called with the list last.arg
NewCalled == last.op = "gpio.new"

\* the list names one index twice
HasDuplicate(values) ==
    \E a, b \in 1..Len(values) : a # b /\ values[a][1] = values[b][1]

\* the list names an index outside the 30 slots
HasOutOfRange(values) == \E a \in 1..Len(values) : values[a][1] >= 30

\* the bank holds exactly the pins of the list, each at its index
BankIs(values) ==
    /\ \A a \in 1..Len(values) : values[a][1] < 30 /\ pins[values[a][1]] = <<values[a][2]>>
    /\ \A i \in 0..29 : (\A a \in 1..Len(values) : values[a][1] # i) => pins[i] = <<>>

\* no pin is in two slots of a bank
NoPinTwice ==
    gpio_built =>
        \A i, j \in 0..29 :
            i # j /\ pins[i] # <<>> /\ pins[j] # <<>> => pins[i][1].id # pins[j][1].id

\* C16 as stated: a list that assigns an index twice aborts construction
\* before any bank exists, so no operation ever sees a duplicate; a list of
\* distinct indices gives the bank with each listed index holding its pin and
\* every other slot empty.
C16_DistinctListBuilds ==
    /\ NoPinTwice
    /\ halted => ~gpio_built
    /\ NewCalled /\ HasDuplicate(last.arg) => halted /\ ~gpio_built
    /\ NewCalled /\ ~HasDuplicate(last.arg) =>
          ~halted /\ gpio_built /\ BankIs(last.arg)

\* C16 amended: construction aborts, before any bank exists, if the list
\* assigns an index twice and also if it names an index of 30 or more (the
\* array has 30 slots); if all indices are distinct and below 30, each
\* listed index holds its pin and every other slot is empty.
C16_DistinctInRangeListBuilds ==
    /\ NoPinTwice
    /\ halted => ~gpio_built
    /\ NewCalled /\ (HasDuplicate(last.arg) \/ HasOutOfRange(last.arg)) =>
          halted /\ ~gpio_built /\ pins = [i \in 0..29 |-> <<>>]
    /\ NewCalled /\ ~HasDuplicate(last.arg) /\ ~HasOutOfRange(last.arg) =>
          ~halted /\ gpio_built /\ BankIs(last.arg)

\* a list of two pins at distinct indices has just made the bank
C16_BuiltWitness ==
    /\ NewCalled
    /\ Len(last.arg) = 2
    /\ ~HasDuplicate(last.arg)
    /\ gpio_built
    /\ pins[0] # <<>> /\ pins[29] # <<>>

\* a list that names index 0 twice has just aborted construction
C16_Witness ==
    /\ NewCalled
    /\ Len(last.arg) = 2
    /\ last.arg[1][1] = 0 /\ last.arg[2][1] = 0
    /\ halted

\* ------------------------------------------------------------ scheduling claims
\* C17: whenever the instruction the hook inspects is Stop, the hook reboots
\* into the firmware-update mode: the VM never executes Stop, and no tick, hook
\* call or any other step follows in that boot; for every other instruction the
\* hook returns no override.
C17_StopReboots ==
    /\ [](/\ last.op # "vm.stop"
          /\ last.op = "instruction_hook" => mainpc = "bootsel" /\ halted
          /\ mainpc = "bootsel" => last.op = "instruction_hook" /\ last.arg = <<"Stop">>
          /\ \A i \in {"Read", "PrintFlush"} : instruction_hook(i) = <<>>)
    /\ [][mainpc = "bootsel" => vars' = vars]_vars
    /\ [][mainpc = "tick" /\ mainpc' = "bootsel" => halted' /\ sent' = sent /\ rx_buf' = rx_buf]_vars

\* the program ran Stop, and the chip rebooted, after a message had gone out
\* and with received bytes still in the ring buffer
C17_Witness ==
    /\ mainpc = "bootsel"
    /\ sent # <<>>
    /\ rx_buf # <<>>

C19_TakeAndClear ==
    /\ [](/\ flushpc # "idle" => message # <<>>
          /\ flushpc \in {"idle", "wait_connection", "write_packet", "write_zlp", "panicked"}
          /\ uartpc # "idle" => uart_message # <<>>
          /\ message # <<>> =>
                IsPrefix(Flatten(sent), message[1]))
    /\ [][/\ flushpc = "idle" /\ flushpc' # "idle" =>
                tx_buf # <<>> /\ message' = tx_buf /\ tx_buf' = <<>> /\ sent' = <<>>
          /\ flushpc = "idle" /\ tx_buf = <<>> =>
                flushpc' = "idle" /\ sent' = sent /\ is_connected' = is_connected
          /\ flushpc # "idle" => message' = message]_vars
    /\ [][/\ flushpc # "idle" /\ tx_buf' # tx_buf => tx_buf' # <<>>
          /\ tx_buf # <<>> /\ tx_buf' = <<>> => flushpc = "idle" /\ message' = tx_buf
          /\ uartpc = "idle" /\ uartpc' # "idle" =>
                uart_tx_buf # <<>> /\ uart_message' = uart_tx_buf /\ uart_tx_buf' = <<>>
          /\ uartpc = "idle" /\ uart_tx_buf = <<>> => uartpc' = "idle"
          /\ uartpc # "idle" /\ uart_tx_buf' # uart_tx_buf => uart_tx_buf' # <<>>
          /\ uart_tx_buf # <<>> /\ uart_tx_buf' = <<>> =>
                uartpc = "idle" /\ uart_message' = uart_tx_buf]_vars

\* while the USB flush waits for the connection with one message taken, a
\* printflush has stored another, which is in the mailbox
C19_Witness ==
    /\ flushpc = "wait_connection"
    /\ message # <<>>
    /\ tx_buf # <<>>
    /\ tx_buf # message

\* C20: in every interleaving of the hooks (read, printflush, sensor), the
\* flush routines and the receiver task, whenever a party is parked at a
\* suspension point it holds no borrow of a mailbox or of the ring buffer, so
\* no cell is borrowed by two parties at once, no borrow a party is about to
\* make can fail, and no party has stopped the boot on a borrow conflict.
BorrowParties == {"main", "receiver", "serial_tick", "uart0_tick"}

SharedCells == {"tx_buf", "uart_tx_buf", "rx_buf"}

BorrowPanicked == "already_borrowed" \in {mainpc, rxpc, flushpc, uartpc}

C21_FailedWriteAborts ==
    /\ [][~halted /\ halted' =>
            LET n == Len(applied') IN
            /\ n < Len(drawbuffer)
            /\ WritesSurface(drawbuffer[n + 1])
            /\ applied' = DrawAll(Renderer, SubSeq(drawbuffer, 1, n), <<>>).log
            /\ display' = DrawAll(Renderer, SubSeq(drawbuffer, 1, n), <<>>).renderer.display
            /\ translation' =
                    DrawAll(Renderer, SubSeq(drawbuffer, 1, n), <<>>).renderer.translation
            /\ operations' = operations
            /\ flushes' = flushes
            /\ drawbuffer' = drawbuffer
            /\ last' = NoCall]_vars
    /\ [][halted => vars' = vars]_vars

\* the first of two queued commands failed: nothing was applied, the second
\* command is still in the buffer, and no flush has completed
C21_Witness ==
    /\ halted
    /\ mainpc = "display"
    /\ Len(drawbuffer) = 2
    /\ applied = <<>>
    /\ drawbuffer[2].kind = "Translate"
    /\ translation = Point(0, 0)
    /\ operations = 0

\* a step of the receiver task that ends with a read_packet started: the
\* first one after the connection wait, or the one the loop starts after a push
ReadStarted ==
    /\ rxpc' = "read_packet"
    /\ \/ rxpc # "read_packet"
       \/ rx_endpoint # None /\ rx_endpoint' = None /\ usb_enabled' = usb_enabled

\* C22 (as stated): every read of a packet from the transport is started in
\* a state where the ring buffer is empty.
C22_ReadStartedOnlyWhenEmpty ==
    [][ReadStarted => rx_buf' = <<>>]_vars

\* C22 (amended): the receiver takes a chunk from the transport first and
\* waits for the drain afterwards: a read started by the loop starts right
\* after the previous chunk was appended whole to the empty ring buffer
\* (so with the ring buffer holding that chunk), and while the task waits for
\* the drain with a chunk in hand no further packet is taken from the
\* transport.
C22_DrainAfterTaking ==
    /\ [](rxpc = "yield" => rx_endpoint = None)
    /\ [][ReadStarted /\ rxpc # "wait_connection" =>
            rx_buf = <<>> /\ rx_buf' = data']_vars
    /\ [][rxpc # "yield" /\ rxpc' = "yield" =>
            rx_buf # <<>> /\ rx_buf' = rx_buf /\ data' = rx_endpoint[1]]_vars

\* the second chunk was taken from the transport while the ring buffer still
\* held bytes of the first; the task now waits for the drain
C22_Witness ==
    /\ rxpc = "yield"
    /\ host_packets = 2
    /\ data # <<>>
    /\ rx_buf # <<>>
    /\ Len(arrived) > Len(data)

\* the receiver waits with a chunk in hand and the ring buffer is drained
RxDrained == rxpc = "yield" /\ rx_buf = <<>>

\* the receiver has left the drain loop with its chunk in the ring buffer
RxAppended == rxpc = "read_packet" /\ rx_buf = data

\* a step of the main loop: the end of the tick, a flush call, the yield
MainStep == VmTickEnd \/ MainUartTick \/ MainSerialTick \/ MainYield

IsSuffix(b, a) == Len(b) <= Len(a) /\ b = SubSeq(a, Len(a) - Len(b) + 1, Len(a))

\* C24: the ring buffer never holds more than 64 bytes; it changes only by
\* taking one whole received packet when it is empty or by losing bytes at
\* its front, so its bytes are of a single packet; no push of the receiver
\* finds too little room (the boot never stops on a push); sensor(BufferSize)
\* is the length of the buffer, which it leaves alone, and
\* sensor(MemoryCapacity) is 64.
C24_RingBufferBound ==
    /\ [](/\ Len(rx_buf) <= MAX_USB_PACKET_SIZE
          /\ rx_endpoint # None => ~RxPushOverflows(<<>>, rx_endpoint[1])
          /\ rxpc = "yield" => ~RxPushOverflows(<<>>, data)
          /\ last.op = "serial.sensor" /\ last.arg = <<"BufferSize">> =>
                last.result = LNum(Len(last.before)) /\ last.after = last.before
          /\ last.op = "serial.sensor" /\ last.arg = <<"MemoryCapacity">> =>
                last.result = LNum(64))
    /\ [][rx_buf' # rx_buf =>
            \/ rx_buf = <<>> /\ rx_buf' = data' /\ IsSuffix(data', arrived')
            \/ IsSuffix(rx_buf', rx_buf)]_vars
    /\ [][~halted /\ halted' => rxpc' = "panicked" /\ ~usb_enabled]_vars
    /\ [][last'.op = "serial.sensor" /\ last' # last =>
            rx_buf' = rx_buf /\ last'.before = rx_buf]_vars

\* a full packet of 64 bytes is in the ring buffer, and the program has
\* asked for the buffer's size and got 64
C24_Witness ==
    /\ Len(rx_buf) = MAX_USB_PACKET_SIZE
    /\ last.op = "serial.sensor"
    /\ last.arg = <<"BufferSize">>
    /\ last.result = LNum(64)
    /\ host_packets = 2
    /\ ~halted

\* C25: in the main loop both mailboxes are empty whenever the tick can
\* still execute an instruction, in particular at its start, and when the
\* loop yields; a tick stores at most one message; the UART flush has taken
\* its message before the USB flush is called; and a mailbox that holds a
\* message changes only by that message being taken by its flush: no stored
\* message is overwritten.
C25_MailboxesEmptyAtTick ==
    /\ [](/\ mainpc = "tick" /\ budget > 0 => tx_buf = None /\ uart_tx_buf = None
          /\ mainpc \in {"boot", "yield"} => tx_buf = None /\ uart_tx_buf = None
          /\ tx_buf = None \/ uart_tx_buf = None
          /\ mainpc \in {"serial_tick", "serial_await"} => uart_tx_buf = None)
    /\ [][/\ tx_buf # None /\ tx_buf' # tx_buf =>
                tx_buf' = None /\ message' = tx_buf /\ mainpc = "serial_tick"
          /\ uart_tx_buf # None /\ uart_tx_buf' # uart_tx_buf =>
                uart_tx_buf' = None /\ uart_message' = uart_tx_buf
                    /\ mainpc = "uart0_tick"]_vars

\* a later tick starts: the message of an earlier tick was stored, taken by
\* the USB flush of that iteration and written, and the mailbox is empty
C25_Witness ==
    /\ mainpc = "tick"
    /\ budget = TickBudget
    /\ message # None
    /\ sent # <<>>
    /\ flushpc = "idle"
    /\ tx_buf = None
    /\ uart_tx_buf = None
    /\ ~halted

====
